---- MODULE Spec2Model ----
(***************************************************************************)
(* url-preview: scrapeMeta.mjs.  A two-tier scraper: a static pass (fetch  *)
(* + Cheerio) and, when that yields neither a title nor an image, a        *)
(* rendered pass in one shared headless browser.                           *)
(*                                                                         *)
(* Text is modelled as a sequence of one-character strings, so that        *)
(* includes / split / trim are computed and not assumed.  The JavaScript   *)
(* value null is the one-element sequence Null, whose element is not a     *)
(* character of any text.                                                  *)
(***************************************************************************)
EXTENDS Integers, Sequences, FiniteSets

VARIABLES
    urls,        \* the input list (argv / --file), in order
    idx,         \* position of the for-loop of the main flow, 1-based
    pc,          \* the await the run is suspended at
    browser,     \* the module-level handle: 0 is null, n is the n-th launch
    page,        \* the page of the current escalation: 0 none, else its id
    results,     \* the results array of the main flow
    printed,     \* what console.log received: <<>> before the print
    exitCode,    \* -1 while running, else the process's exit status
    launchCalls, \* history: invocations of puppeteer.launch
    closeCalls,  \* history: invocations of browser.close
    pagesOpened, \* history: pages returned by browser.newPage
    openPages,   \* history: ids of pages opened and not closed
    launchOks,   \* history: launches that returned a browser
    escalations, \* history: URLs for which the fallback was entered
    cur,         \* history: what scrapeOne did for the URL it last started
    tRaw,        \* title check: the raw title text handed to the tier
    tTier,       \* title check: "static" or "rendered"
    tOut,        \* title check: <<"pending">> or the extracted title
    fIn,         \* extractor check: the document handed to the extractor
    fOut         \* extractor check: <<>>, or <<r>> for the result r

vars == <<urls, idx, pc, browser, page, results, printed, exitCode,
          launchCalls, closeCalls, pagesOpened, openPages, launchOks,
          escalations, cur, tRaw, tTier, tOut, fIn, fOut>>

pipeVars  == <<urls, idx, pc, browser, page, results, printed, exitCode,
               launchCalls, closeCalls, pagesOpened, openPages, launchOks,
               escalations, cur>>
titleVars == <<tRaw, tTier, tOut, fIn, fOut>>

\* ---------------------------------------------------------------- bounds
MaxUrls     == 2    \* longest input list explored
MaxTitleLen == 4    \* longest raw title explored by the title check

\* ------------------------------------------------------------ text model
Null    == <<"null">>
Pending == <<"pending">>

Chars == {"a", " ", "|"}

Texts(n) == UNION {[1..k -> Chars] : k \in 0..n}

\* String.prototype.includes for a one-character needle
includes(s, c) == \E i \in 1..Len(s) : s[i] = c

\* s.split('|')[0]: the text before the first bar, all of s when it has none
RECURSIVE splitFirst(_)
splitFirst(s) ==
    IF s = <<>> \/ Head(s) = "|" THEN <<>>
    ELSE <<Head(s)>> \o splitFirst(Tail(s))

\* String.prototype.trim, the blank being the only white space of Chars
RECURSIVE trimStart(_)
trimStart(s) ==
    IF s # <<>> /\ Head(s) = " " THEN trimStart(Tail(s)) ELSE s

RECURSIVE trimEnd(_)
trimEnd(s) ==
    IF s # <<>> /\ s[Len(s)] = " " THEN trimEnd(SubSeq(s, 1, Len(s) - 1)) ELSE s

trim(s) == trimEnd(trimStart(s))

\* JavaScript truthiness of a string-or-null value
truthy(v) == v # Null /\ v # <<>>

\* ------------------------------------------------------ title extraction
normalizeTitle_NoTrim(raw) ==
    IF includes(raw, "|") THEN splitFirst(raw)
    ELSE IF trim(raw) # <<>> THEN trim(raw) ELSE Null

\* raw.includes('|') ? raw.split('|')[0].trim() : raw.trim() || null
\* (the conditional binds loosest: "|| null" belongs to the else branch only)
normalizeTitle(raw) ==
    IF includes(raw, "|") THEN trim(splitFirst(raw))
    ELSE IF trim(raw) # <<>> THEN trim(raw) ELSE Null

\* let ttl = document.title || null;
\* if (ttl?.includes('|')) ttl = ttl.split('|')[0].trim();
renderedTitle(docTitle) ==
    LET ttl == IF docTitle # <<>> THEN docTitle ELSE Null
    IN  IF ttl # Null /\ includes(ttl, "|") THEN trim(splitFirst(ttl)) ELSE ttl

\* document.title as the DOM hands it over: white space stripped at both
\* ends and runs of it collapsed to one blank
IsDocumentTitle(s) ==
    /\ s = trim(s)
    /\ \A i \in 1..(Len(s) - 1) : ~(s[i] = " " /\ s[i+1] = " ")


\* ------------------------------------------------------------- URL model
\* A URL or an attribute value is the sequence of its lexical pieces
\* (scheme, "//", host, "/", path names, extension); the string is their
\* concatenation.  Page URLs have the form scheme // host / path...
Undef == <<"undefined">>

UrlA == <<"https:", "//", "a.example", "/", "page">>
UrlB == <<"https:", "//", "b.example", "/", "dir", "/", "page">>
Urls == {UrlA, UrlB}

\* a page URL given without a path, as on the command line of the README
UrlRoot == <<"https:", "//", "a.example">>
Bases   == Urls \cup {UrlRoot}

\* the URL of a document the page made from a Blob and navigated to: its
\* path is opaque, so it is the base of no relative reference
BlobLoc == <<"blob:", "https:", "//", "a.example", "/", "id">>

\* location.href once page.goto(url) has settled: the URL itself, or where
\* a redirect or the page's own navigation has led
Locations(url) == {url, UrlB, BlobLoc}

\* the piece in lower case
lower(t) ==
    CASE t = "HTTP:"  -> "http:"
      [] t = "HTTPS:" -> "https:"
      [] t = "Icon"   -> "icon"
      [] t = "SPRITE" -> "sprite"
      [] t = ".SVG"   -> ".svg"
      [] OTHER        -> t

\* the pieces that end in ":"
Schemes      == {"http:", "https:", "HTTP:", "HTTPS:", "data:", "blob:"}
InvalidHosts == {"["}

\* pieces holding a character a scheme cannot hold, and pieces that do not
\* start with a letter; every other piece is letters, digits and dots
NotSchemeText == {"/", "//", "[", "image_src"}
ExtPieces     == {".png", ".jpg", ".svg", ".SVG"}

IsSlash(t) == t \in {"/", "//"}

\* the number of slash pieces the value starts with
slashRun(s) ==
    CHOOSE k \in 0..Len(s) :
        /\ \A i \in 1..k : IsSlash(s[i])
        /\ k = Len(s) \/ ~IsSlash(s[k + 1])

\* the number of "/" characters the value starts with
leadingSlashes(s) ==
    slashRun(s) + Cardinality({i \in 1..slashRun(s) : s[i] = "//"})

dropSlashes(s) == SubSeq(s, slashRun(s) + 1, Len(s))

\* what follows the first two "/" characters of a value that starts with two
afterTwoSlashes(s) ==
    IF s[1] = "//" THEN Tail(s)
    ELSE IF s[2] = "/" THEN SubSeq(s, 3, Len(s))
    ELSE <<"/">> \o SubSeq(s, 3, Len(s))

\* /^https?:\/\//i.test(src)
isHttp(src) ==
    /\ Len(src) >= 1
    /\ lower(src[1]) \in {"http:", "https:"}
    /\ leadingSlashes(Tail(src)) >= 2

\* the index of the piece that ends the scheme of a value, 0 when the value
\* has no scheme: the text up to the first ":" must start with a letter and
\* hold scheme characters only
schemeEnd(s) ==
    LET C == {i \in 1..Len(s) : s[i] \in Schemes}
    IN  IF C = {} THEN 0
        ELSE LET k == CHOOSE i \in C : \A j \in C : i <= j
             IN  IF /\ \A i \in 1..(k - 1) : s[i] \notin NotSchemeText
                    /\ s[1] \notin ExtPieces
                 THEN k ELSE 0

\* the scheme of a value, in lower case
schemeOf(s) == [i \in 1..schemeEnd(s) |-> lower(s[i])]

IsSpecial(sch) == sch \in {<<"http:">>, <<"https:">>}

\* the number of pieces before the next "/"
hostRun(s) ==
    CHOOSE k \in 0..Len(s) :
        /\ \A i \in 1..k : ~IsSlash(s[i])
        /\ k = Len(s) \/ IsSlash(s[k + 1])

\* the pieces up to the next "/": the host (and port) of an authority
hostPart(s) == SubSeq(s, 1, hostRun(s))

pathPart(s) == SubSeq(s, hostRun(s) + 1, Len(s))

\* the ":" of an empty port at the end of a host is dropped
noColon(t) ==
    CASE t = "http:"  -> "http"
      [] t = "https:" -> "https"
      [] t = "HTTP:"  -> "HTTP"
      [] t = "HTTPS:" -> "HTTPS"
      [] t = "data:"  -> "data"
      [] t = "blob:"  -> "blob"
      [] OTHER        -> t

\* no forbidden character, and nothing but the end after a ":" (a port is
\* a number)
hostOk(h) ==
    /\ \A i \in 1..Len(h) : h[i] \notin InvalidHosts
    /\ \A i \in 1..(Len(h) - 1) : h[i] \notin Schemes

\* the host of an http(s) URL: lower case, empty port dropped
hostSer(h) ==
    [i \in 1..Len(h) |-> IF i = Len(h) THEN noColon(lower(h[i])) ELSE lower(h[i])]

\* the host of any other URL: as written, empty port dropped
opaqueHostSer(h) ==
    [i \in 1..Len(h) |-> IF i = Len(h) THEN noColon(h[i]) ELSE h[i]]

UrlError == [ok |-> FALSE, href |-> <<>>]

\* scheme://host/path of a special scheme: every leading slash is skipped,
\* the host must be present and valid, an empty path becomes "/"
authorityOf(sch, r) ==
    LET h == hostPart(r)
        p == pathPart(r)
    IN  IF h # <<>> /\ hostOk(h)
        THEN [ok |-> TRUE,
              href |-> <<sch, "//">> \o hostSer(h)
                       \o (IF p = <<>> THEN <<"/">> ELSE p)]
        ELSE UrlError

authorityURL(sch, s) ==
    CHOOSE u \in {authorityOf(c, r) : c \in {sch}, r \in {dropSlashes(s)}} : TRUE

\* what follows a scheme that is not http(s): an authority after exactly
\* two slashes (the host may be empty), else a path kept as written
otherOf(sch, s) ==
    IF leadingSlashes(s) >= 2
    THEN LET h == hostPart(afterTwoSlashes(s))
             p == pathPart(afterTwoSlashes(s))
         IN  IF hostOk(h)
             THEN [ok |-> TRUE, href |-> sch \o <<"//">> \o opaqueHostSer(h) \o p]
             ELSE UrlError
    ELSE [ok |-> TRUE, href |-> sch \o s]

otherURL(sch, s) ==
    CHOOSE u \in {otherOf(c, r) : c \in {sch}, r \in {s}} : TRUE

\* a value parsed on its own: it must have a scheme
parseAbsolute(u) ==
    IF u = <<>> \/ schemeEnd(u) = 0 THEN UrlError
    ELSE IF IsSpecial(schemeOf(u))
    THEN authorityURL(schemeOf(u)[1], SubSeq(u, schemeEnd(u) + 1, Len(u)))
    ELSE otherURL(schemeOf(u), SubSeq(u, schemeEnd(u) + 1, Len(u)))

lastSlash(s) ==
    CHOOSE k \in 0..Len(s) :
        /\ k = 0 \/ IsSlash(s[k])
        /\ \A i \in (k + 1)..Len(s) : ~IsSlash(s[i])

\* a reference without a scheme of its own, resolved against a parsed
\* base b: an authority after two slashes, a path from the root after one,
\* else a name in the directory of the base; a base with an opaque path
\* resolves nothing
resolve(ref, b) ==
    LET sch  == schemeOf(b)
        rest == SubSeq(b, Len(sch) + 1, Len(b))
        n    == leadingSlashes(ref)
    IN  IF IsSpecial(sch)
        THEN IF n >= 2 THEN authorityURL(sch[1], ref)
             ELSE IF n = 1
             THEN [ok |-> TRUE,
                   href |-> SubSeq(b, 1, 2 + hostRun(SubSeq(b, 3, Len(b)))) \o ref]
             ELSE IF ref = <<>> THEN [ok |-> TRUE, href |-> b]
             ELSE [ok |-> TRUE, href |-> SubSeq(b, 1, lastSlash(b)) \o ref]
        ELSE IF leadingSlashes(rest) = 0 THEN UrlError
        ELSE IF n >= 2 THEN otherURL(sch, ref)
        ELSE LET auth == IF leadingSlashes(rest) >= 2
                         THEN <<"//">> \o hostPart(afterTwoSlashes(rest))
                         ELSE <<>>
                 path == SubSeq(b, Len(sch) + Len(auth) + 1, Len(b))
             IN  IF n = 1 THEN [ok |-> TRUE, href |-> sch \o auth \o ref]
                 ELSE IF ref = <<>> THEN [ok |-> TRUE, href |-> b]
                 ELSE IF path = <<>>
                 THEN [ok |-> TRUE, href |-> sch \o auth \o <<"/">> \o ref]
                 ELSE [ok |-> TRUE,
                       href |-> sch \o auth \o SubSeq(path, 1, lastSlash(path)) \o ref]

\* the base is parsed first; a base that does not parse resolves nothing
relativeURL(ref, base) ==
    CHOOSE u \in {IF pb.ok THEN resolve(r, pb.href) ELSE UrlError :
                     r \in {ref}, pb \in {parseAbsolute(base)}} : TRUE

\* the URL parser on a value with at least one piece; the base is parsed
\* first.  An http(s) scheme equal to the base's scheme leaves the rest a
\* relative reference; a different http(s) scheme makes the rest an
\* authority; any other scheme is parsed on its own
parseURL(src, base) ==
    IF ~parseAbsolute(base).ok THEN UrlError
    ELSE IF schemeEnd(src) = 0 THEN relativeURL(src, base)
    ELSE IF IsSpecial(schemeOf(src))
    THEN IF schemeOf(src) = schemeOf(base) THEN relativeURL(Tail(src), base)
         ELSE authorityURL(schemeOf(src)[1], Tail(src))
    ELSE parseAbsolute(src)

\* new URL(src, base).href for a non-empty src and a page URL as base:
\* ok = FALSE stands for the TypeError the constructor throws.  The two
\* arguments are values by the time the constructor runs
newURL(src, base) ==
    CHOOSE r \in {parseURL(s, b) : s \in {src}, b \in {base}} : TRUE

absolutize_Raw(src, base) == src

\* absolutize(src, base)
absolutize(src, base) ==
    IF ~truthy(src) \/ src = Undef \/ isHttp(src) THEN src
    ELSE LET r == newURL(src, base) IN IF r.ok THEN r.href ELSE src

\* ------------------------------------------------------ static extractor
\* The document as Cheerio sees it: the text of the first <title> ("" when
\* there is none) and, per selector of the list, the attributes of the
\* first element it matches (all Undef when it matches nothing).
NoEl == [content |-> Undef, href |-> Undef, src |-> Undef]

\* $(sel).attr('content') ?? $(sel).attr('href') ?? $(sel).attr('src')
selVal(el) ==
    IF el.content # Undef THEN el.content
    ELSE IF el.href # Undef THEN el.href
    ELSE el.src

\* for (const sel of selectors) { ... if (val) { img = absolutize(...); break } }
RECURSIVE pickImage(_, _, _)
pickImage(els, k, baseUrl) ==
    IF k > Len(els) THEN Null
    ELSE LET val == selVal(els[k])
         IN  IF val # Undef /\ truthy(val) THEN absolutize(val, baseUrl)
             ELSE pickImage(els, k + 1, baseUrl)

extractCheerio(html, baseUrl) ==
    [title        |-> normalizeTitle(html.title),
     previewImage |-> pickImage(html.els, 1, baseUrl)]

\* ---------------------------------------------------- rendered extractor
MinSide == 200

endsWithSvg(src) == src # <<>> /\ src[Len(src)] = ".svg"

\* /sprite|icon/i.test(src)
smellsDecorative(src) ==
    \E i \in 1..Len(src) : lower(src[i]) \in {"sprite", "icon"}

looksBad(src) == ~truthy(src) \/ endsWithSvg(src) \/ smellsDecorative(src)

\* attr(sel1) || attr(sel2) || ... || null
RECURSIVE firstTruthy(_, _)
firstTruthy(metas, k) ==
    IF k > Len(metas) THEN Null
    ELSE IF truthy(metas[k]) /\ metas[k] # Undef THEN metas[k]
    ELSE firstTruthy(metas, k + 1)

\* .map((img) => ({ src: img.currentSrc || img.src, area, w, h }))
mapImg(img) ==
    [src  |-> IF img.currentSrc # <<>> THEN img.currentSrc ELSE img.src,
     area |-> img.naturalWidth * img.naturalHeight,
     w    |-> img.naturalWidth,
     h    |-> img.naturalHeight]

RECURSIVE mapImgs(_)
mapImgs(images) ==
    IF images = <<>> THEN <<>>
    ELSE <<mapImg(Head(images))>> \o mapImgs(Tail(images))

\* .filter((o) => o.w >= 200 && o.h >= 200 && !o.src.endsWith('.svg'))
keepImg(o) == o.w >= MinSide /\ o.h >= MinSide /\ ~endsWithSvg(o.src)

\* .sort((a, b) => b.area - a.area): a stable sort, largest area first
RECURSIVE insertByArea(_, _)
insertByArea(sorted, o) ==
    IF sorted = <<>> THEN <<o>>
    ELSE IF Head(sorted).area >= o.area
         THEN <<Head(sorted)>> \o insertByArea(Tail(sorted), o)
         ELSE <<o>> \o sorted

RECURSIVE sortByArea(_, _)
sortByArea(todo, sorted) ==
    IF todo = <<>> THEN sorted
    ELSE sortByArea(Tail(todo), insertByArea(sorted, Head(todo)))

\* const abs = (u) => { try { return new URL(u, location.href).href } catch { return u } }
abs(u, location) ==
    LET r == newURL(u, location) IN IF r.ok THEN r.href ELSE u

\* the callback of page.evaluate, run on the rendered document
evaluateInPage(dom) ==
    LET meta == firstTruthy(dom.metas, 1)
        imgs == sortByArea(SelectSeq(mapImgs(dom.images), keepImg), <<>>)
        cand == IF ~truthy(meta) \/ looksBad(meta)
                THEN IF imgs # <<>> THEN imgs[1].src ELSE meta
                ELSE meta
        res  == IF truthy(cand) THEN abs(cand, dom.location) ELSE cand
    IN  [title        |-> renderedTitle(dom.title),
         previewImage |-> IF truthy(res) THEN res ELSE Null]


\* ------------------------------------------------------- the environment
\* What the network and the browser may answer.  Small, and chosen so that
\* every branch of the two extractors is taken.
FetchErrors == {"404 Not Found", "fetch failed"}

\* what res.text() may reject with once the response has arrived
BodyErrors == {"terminated"}

Meta(c) == [content |-> c, href |-> Undef, src |-> Undef]
Link(h) == [content |-> Undef, href |-> h, src |-> Undef]
Img(u)  == [content |-> Undef, href |-> Undef, src |-> u]

HeroRel == <<"/", "img", "/", "hero", ".png">>
CardAbs == <<"https:", "//", "cdn.example", "/", "card", ".jpg">>
IconRel == <<"/", "icon", ".png">>
BigPng  == <<"https:", "//", "cdn.example", "/", "big", ".png">>
MidPng  == <<"https:", "//", "cdn.example", "/", "mid", ".png">>
BigSvg  == <<"https:", "//", "cdn.example", "/", "art", ".svg">>

PipeTitles == {<<>>, <<"a">>, <<"|", "a">>, <<"a", " ", "|", "a">>}

PipeEls ==
    { <<NoEl, NoEl, NoEl, NoEl, NoEl, NoEl>>,
      <<Meta(HeroRel), NoEl, Meta(CardAbs), NoEl, NoEl, NoEl>>,
      <<Meta(<<>>), NoEl, NoEl, NoEl, Link(<<"//", "[">>), Img(<<"pic", ".png">>)>>,
      <<NoEl, NoEl, NoEl, Meta(<<"https:", "/", "card", ".jpg">>), NoEl, NoEl>> }

StaticDocs == {[title |-> t, els |-> e] : t \in PipeTitles, e \in PipeEls}

Pic(u, w, h) ==
    [currentSrc |-> <<>>, src |-> u, naturalWidth |-> w, naturalHeight |-> h]

DomMetas ==
    { <<Null, Null, Null, Null, Null, Null>>,
      <<Null, IconRel, Null, CardAbs, Null, Null>>,
      <<Null, Null, <<>>, CardAbs, Null, Null>>,
      <<Null, Null, Null, Null, Null, <<"//", "[">>>> }

NoImgs    == <<>>
SmallImgs == <<Pic(MidPng, 150, 150)>>
ManyImgs  ==
    <<Pic(MidPng, 300, 300), Pic(BigPng, 500, 500), Pic(BigSvg, 1000, 1000)>>

Dom(t, m, i, loc) == [title |-> t, metas |-> m, images |-> i, location |-> loc]

\* the documents the browser may hold when location.href is loc: an empty
\* page, a decorative candidate with and without a qualifying image, an
\* empty content before a good candidate, a value no base resolves, and
\* images alone
RenderedDocs(loc) ==
    { Dom(<<>>, <<Null, Null, Null, Null, Null, Null>>, NoImgs, loc),
      Dom(<<"a">>, <<Null, IconRel, Null, CardAbs, Null, Null>>, NoImgs, loc),
      Dom(<<"|", " ", "a">>, <<Null, IconRel, Null, CardAbs, Null, Null>>,
          ManyImgs, loc),
      Dom(<<"a", " ", "|", " ", "a">>, <<Null, Null, <<>>, CardAbs, Null, Null>>,
          SmallImgs, loc),
      Dom(<<>>, <<Null, Null, Null, Null, Null, <<"//", "[">>>>, SmallImgs, loc),
      Dom(<<"a">>, <<Null, Null, Null, Null, Null, Null>>, ManyImgs, loc) }

\* ----------------------------------------------------------- the records
ErrorRecord_AsNulls(url, msg) ==
    [url |-> url, title |-> Null, previewImage |-> Null]

ErrorRecord_WithFields(url, msg) ==
    [url |-> url, title |-> Null, previewImage |-> Null, error |-> msg]

\* results.push({ url, error: err.message })
ErrorRecord(url, msg) == [url |-> url, error |-> msg]

\* return { url: targetUrl, title, previewImage }
SuccessRecord(url, title, previewImage) ==
    [url |-> url, title |-> title, previewImage |-> previewImage]

pushResult_Front(res, rec) == <<rec>> \o res

\* results.push(...)
pushResult(res, rec) == Append(res, rec)

\* if (!title && !previewImage)
shouldEscalate(title, previewImage) == ~truthy(title) /\ ~truthy(previewImage)

needsLaunch_Always(b) == TRUE

\* if (!browser)
needsLaunch(b) == b = 0

\* what scrapeOne has done so far for the URL at position i
FreshCur(i) ==
    [i |-> i, fetched |-> "none", sTitle |-> Pending, sImage |-> Pending,
     rTitle |-> Pending, rImage |-> Pending, loc |-> Pending,
     escalated |-> 0, launches |-> 0, pages |-> 0, navs |-> 0, handle |-> 0,
     threw |-> ""]

\* ------------------------------------------------------------ the run
\* what the bare arguments, or the non-blank lines of the --file list, may
\* be
UrlLists == UNION {[1..n -> Urls] : n \in 0..MaxUrls}

\* the lists a run starts with: the bare arguments followed by the lines of
\* a --file list that could be read, when there is at least one URL.  A
\* list that cannot be read, and an empty list, end the program before the
\* run (ReadFileFail and UsageExit of the command line below)
MergedUrls ==
    {a \o f : a \in UrlLists, f \in UrlLists} \cap
    {u \in UrlLists : Len(u) >= 1}

\* the state in which the for-loop of the main flow starts
Init ==
    /\ urls \in MergedUrls
    /\ idx = 1
    /\ pc = "fetch"
    /\ browser = 0
    /\ page = 0
    /\ results = <<>>
    /\ printed = <<>>
    /\ exitCode = -1
    /\ launchCalls = 0
    /\ closeCalls = 0
    /\ pagesOpened = 0
    /\ openPages = {}
    /\ launchOks = 0
    /\ escalations = 0
    /\ cur = FreshCur(0)
    /\ tRaw = <<>>
    /\ tTier = "none"
    /\ tOut = Pending
    /\ fIn = <<>>
    /\ fOut = <<>>

NextUrl_Stalls ==
    /\ idx' = idx + 1
    /\ pc' = IF idx = Len(urls) THEN "stalled" ELSE "fetch"
    /\ page' = 0

\* the for-loop moves to the next URL, or ends
NextUrl ==
    /\ idx' = idx + 1
    /\ pc' = IF idx = Len(urls) THEN "close" ELSE "fetch"
    /\ page' = 0

Catch_Drops(msg) ==
    /\ results' = results
    /\ NextUrl

\* scrapeOne threw: catch (err) { results.push({ url, error: err.message }) }
Catch(msg) ==
    /\ results' = pushResult(results, ErrorRecord(urls[idx], msg))
    /\ NextUrl

\* scrapeOne returned: results.push(await scrapeOne(url))
Return(title, previewImage) ==
    /\ results' = pushResult(results, SuccessRecord(urls[idx], title, previewImage))
    /\ NextUrl

FetchFail_Escalates ==
    /\ pc = "fetch"
    /\ \E msg \in FetchErrors :
          cur' = [FreshCur(idx) EXCEPT !.fetched = "fail", !.threw = msg,
                                       !.escalated = 1]
    /\ pc' = "launch"
    /\ escalations' = escalations + 1
    /\ UNCHANGED <<urls, idx, browser, page, results, printed, exitCode,
                   launchCalls, closeCalls, pagesOpened, openPages, launchOks,
                   titleVars>>

\* await fetch(...) rejects, or !res.ok
FetchFail ==
    /\ pc = "fetch"
    /\ \E msg \in FetchErrors :
          /\ cur' = [FreshCur(idx) EXCEPT !.fetched = "fail", !.threw = msg]
          /\ Catch(msg)
    /\ UNCHANGED <<urls, browser, printed, exitCode, launchCalls, closeCalls,
                   pagesOpened, openPages, launchOks, escalations, titleVars>>

\* await fetch(...) fulfils with res.ok: the body is still to be read
FetchOk ==
    /\ pc = "fetch"
    /\ cur' = [FreshCur(idx) EXCEPT !.fetched = "response"]
    /\ pc' = "text"
    /\ UNCHANGED <<urls, idx, browser, page, results, printed, exitCode,
                   launchCalls, closeCalls, pagesOpened, openPages, launchOks,
                   escalations, titleVars>>

\* const html = await res.text() rejects
TextFail ==
    /\ pc = "text"
    /\ \E msg \in BodyErrors :
          /\ cur' = [cur EXCEPT !.fetched = "fail", !.threw = msg]
          /\ Catch(msg)
    /\ UNCHANGED <<urls, browser, printed, exitCode, launchCalls, closeCalls,
                   pagesOpened, openPages, launchOks, escalations, titleVars>>

\* res.text() fulfils and the static pass finds a title or an image
FetchOkReturn ==
    /\ pc = "text"
    /\ \E html \in StaticDocs :
          LET r == extractCheerio(html, urls[idx])
          IN  /\ ~shouldEscalate(r.title, r.previewImage)
              /\ cur' = [cur EXCEPT !.fetched = "ok",
                             !.sTitle = r.title, !.sImage = r.previewImage]
              /\ Return(r.title, r.previewImage)
    /\ UNCHANGED <<urls, browser, printed, exitCode, launchCalls, closeCalls,
                   pagesOpened, openPages, launchOks, escalations, titleVars>>

\* res.text() fulfils and the static pass finds nothing: the fallback starts
FetchOkEscalate ==
    /\ pc = "text"
    /\ \E html \in StaticDocs :
          LET r == extractCheerio(html, urls[idx])
          IN  /\ shouldEscalate(r.title, r.previewImage)
              /\ cur' = [cur EXCEPT !.fetched = "ok",
                             !.sTitle = r.title, !.sImage = r.previewImage,
                             !.escalated = 1]
    /\ pc' = "launch"
    /\ escalations' = escalations + 1
    /\ UNCHANGED <<urls, idx, browser, page, results, printed, exitCode,
                   launchCalls, closeCalls, pagesOpened, openPages, launchOks,
                   titleVars>>

\* if (!browser) is false: the cached handle is used
LaunchSkip ==
    /\ pc = "launch"
    /\ ~needsLaunch(browser)
    /\ pc' = "newPage"
    /\ UNCHANGED <<urls, idx, browser, page, results, printed, exitCode,
                   launchCalls, closeCalls, pagesOpened, openPages, launchOks,
                   escalations, cur, titleVars>>

\* browser = await puppeteer.launch(...)
LaunchOk ==
    /\ pc = "launch"
    /\ needsLaunch(browser)
    /\ launchCalls' = launchCalls + 1
    /\ launchOks' = launchOks + 1
    /\ browser' = launchCalls + 1
    /\ cur' = [cur EXCEPT !.launches = @ + 1]
    /\ pc' = "newPage"
    /\ UNCHANGED <<urls, idx, page, results, printed, exitCode, closeCalls,
                   pagesOpened, openPages, escalations, titleVars>>

LaunchFail_KeepsHandle ==
    /\ pc = "launch"
    /\ needsLaunch(browser)
    /\ launchCalls' = launchCalls + 1
    /\ browser' = launchCalls + 1
    /\ cur' = [cur EXCEPT !.launches = @ + 1, !.threw = "launch failed"]
    /\ Catch("launch failed")
    /\ UNCHANGED <<urls, printed, exitCode, closeCalls, pagesOpened,
                   openPages, launchOks, escalations, titleVars>>

\* puppeteer.launch rejects: the handle stays null
LaunchFail ==
    /\ pc = "launch"
    /\ needsLaunch(browser)
    /\ launchCalls' = launchCalls + 1
    /\ cur' = [cur EXCEPT !.launches = @ + 1, !.threw = "launch failed"]
    /\ Catch("launch failed")
    /\ UNCHANGED <<urls, browser, printed, exitCode, closeCalls, pagesOpened,
                   openPages, launchOks, escalations, titleVars>>

\* const page = await browser.newPage()
NewPageOk ==
    /\ pc = "newPage"
    /\ pagesOpened' = pagesOpened + 1
    /\ page' = pagesOpened + 1
    /\ openPages' = openPages \cup {pagesOpened + 1}
    /\ cur' = [cur EXCEPT !.pages = @ + 1, !.handle = browser]
    /\ pc' = "setUA"
    /\ UNCHANGED <<urls, idx, browser, results, printed, exitCode, launchCalls,
                   closeCalls, launchOks, escalations, titleVars>>

NewPageFail ==
    /\ pc = "newPage"
    /\ cur' = [cur EXCEPT !.threw = "newPage failed"]
    /\ Catch("newPage failed")
    /\ UNCHANGED <<urls, browser, printed, exitCode, launchCalls, closeCalls,
                   pagesOpened, openPages, launchOks, escalations, titleVars>>

\* await page.setUserAgent(UA)
SetUserAgentOk ==
    /\ pc = "setUA"
    /\ pc' = "goto"
    /\ UNCHANGED <<urls, idx, browser, page, results, printed, exitCode,
                   launchCalls, closeCalls, pagesOpened, openPages, launchOks,
                   escalations, cur, titleVars>>

SetUserAgentFail ==
    /\ pc = "setUA"
    /\ cur' = [cur EXCEPT !.threw = "setUserAgent failed"]
    /\ Catch("setUserAgent failed")
    /\ UNCHANGED <<urls, browser, printed, exitCode, launchCalls, closeCalls,
                   pagesOpened, openPages, launchOks, escalations, titleVars>>

\* await page.goto(targetUrl, { waitUntil: 'networkidle2', timeout: 30000 }):
\* redirects are followed, so the page may settle at another location
GotoOk ==
    /\ pc = "goto"
    /\ \E loc \in Locations(urls[idx]) :
          cur' = [cur EXCEPT !.navs = @ + 1, !.loc = loc]
    /\ pc' = "evaluate"
    /\ UNCHANGED <<urls, idx, browser, page, results, printed, exitCode,
                   launchCalls, closeCalls, pagesOpened, openPages, launchOks,
                   escalations, titleVars>>

GotoFail ==
    /\ pc = "goto"
    /\ cur' = [cur EXCEPT !.navs = @ + 1, !.threw = "Navigation timeout"]
    /\ Catch("Navigation timeout")
    /\ UNCHANGED <<urls, browser, printed, exitCode, launchCalls, closeCalls,
                   pagesOpened, openPages, launchOks, escalations, titleVars>>

\* ({ title, previewImage } = await page.evaluate(...))
EvaluateOk ==
    /\ pc = "evaluate"
    /\ \E dom \in RenderedDocs(cur.loc) :
          LET r == evaluateInPage(dom)
          IN  cur' = [cur EXCEPT !.rTitle = r.title, !.rImage = r.previewImage]
    /\ pc' = "pageClose"
    /\ UNCHANGED <<urls, idx, browser, page, results, printed, exitCode,
                   launchCalls, closeCalls, pagesOpened, openPages, launchOks,
                   escalations, titleVars>>

EvaluateFail ==
    /\ pc = "evaluate"
    /\ cur' = [cur EXCEPT !.threw = "Evaluation failed"]
    /\ Catch("Evaluation failed")
    /\ UNCHANGED <<urls, browser, printed, exitCode, launchCalls, closeCalls,
                   pagesOpened, openPages, launchOks, escalations, titleVars>>

PageCloseOk_ClosesBrowser ==
    /\ pc = "pageClose"
    /\ openPages' = openPages \ {page}
    /\ closeCalls' = closeCalls + 1
    /\ Return(cur.rTitle, cur.rImage)
    /\ UNCHANGED <<urls, browser, printed, exitCode, launchCalls,
                   pagesOpened, launchOks, escalations, cur, titleVars>>

\* await page.close(); return { url: targetUrl, title, previewImage }
PageCloseOk ==
    /\ pc = "pageClose"
    /\ openPages' = openPages \ {page}
    /\ Return(cur.rTitle, cur.rImage)
    /\ UNCHANGED <<urls, browser, printed, exitCode, launchCalls, closeCalls,
                   pagesOpened, launchOks, escalations, cur, titleVars>>

PageCloseFail ==
    /\ pc = "pageClose"
    /\ cur' = [cur EXCEPT !.threw = "page.close failed"]
    /\ Catch("page.close failed")
    /\ UNCHANGED <<urls, browser, printed, exitCode, launchCalls, closeCalls,
                   pagesOpened, openPages, launchOks, escalations, titleVars>>


\* ------------------------------------------------- after the for-loop
CloseSkip_Closes ==
    /\ pc = "close"
    /\ browser = 0
    /\ closeCalls' = closeCalls + 1
    /\ pc' = "print"
    /\ UNCHANGED <<urls, idx, browser, page, results, printed, exitCode,
                   launchCalls, pagesOpened, openPages, launchOks,
                   escalations, cur, titleVars>>

\* if (browser) is false: nothing to close
CloseSkip ==
    /\ pc = "close"
    /\ browser = 0
    /\ pc' = "print"
    /\ UNCHANGED <<urls, idx, browser, page, results, printed, exitCode,
                   launchCalls, closeCalls, pagesOpened, openPages, launchOks,
                   escalations, cur, titleVars>>

\* if (browser) await browser.close(): the browser and its pages are gone
CloseOk ==
    /\ pc = "close"
    /\ browser # 0
    /\ closeCalls' = closeCalls + 1
    /\ openPages' = {}
    /\ pc' = "print"
    /\ UNCHANGED <<urls, idx, browser, page, results, printed, exitCode,
                   launchCalls, pagesOpened, launchOks, escalations, cur,
                   titleVars>>

\* browser.close() rejects: the outer catch takes over
CloseFail ==
    /\ pc = "close"
    /\ browser # 0
    /\ closeCalls' = closeCalls + 1
    /\ pc' = "catch"
    /\ UNCHANGED <<urls, idx, browser, page, results, printed, exitCode,
                   launchCalls, pagesOpened, openPages, launchOks,
                   escalations, cur,
                   titleVars>>

printShape_Array(res) == [shape |-> "array", records |-> res]

\* JSON.stringify(results.length === 1 ? results[0] : results, null, 2)
printShape(res) ==
    IF Len(res) = 1 THEN [shape |-> "object", records |-> <<res[1]>>]
    ELSE [shape |-> "array", records |-> res]

\* console.log(...): the run ends with status 0
Output ==
    /\ pc = "print"
    /\ printed' = <<printShape(results)>>
    /\ exitCode' = 0
    /\ pc' = "done"
    /\ UNCHANGED <<urls, idx, browser, page, results, launchCalls, closeCalls,
                   pagesOpened, openPages, launchOks, escalations, cur,
                   titleVars>>

\* catch (err) { console.error(...); if (browser) await browser.close(); exit(1) }
\* browser is never reset to null, so the handle that was just being closed
\* is closed again; a second rejection is unhandled and ends the process
\* with status 1 as well
CatchClose ==
    /\ pc = "catch"
    /\ IF browser # 0
       THEN /\ closeCalls' = closeCalls + 1
            /\ openPages' \in {{}, openPages}
       ELSE UNCHANGED <<closeCalls, openPages>>
    /\ exitCode' = 1
    /\ pc' = "exited"
    /\ UNCHANGED <<urls, idx, browser, page, results, printed, launchCalls,
                   pagesOpened, launchOks, escalations, cur, titleVars>>

\* ------------------------------------------------------ the title check
\* The two title rules applied to every raw text up to MaxTitleLen.
InitTitle ==
    /\ urls = <<UrlA>>
    /\ idx = 1
    /\ pc = "title"
    /\ browser = 0
    /\ page = 0
    /\ results = <<>>
    /\ printed = <<>>
    /\ exitCode = -1
    /\ launchCalls = 0
    /\ closeCalls = 0
    /\ pagesOpened = 0
    /\ openPages = {}
    /\ launchOks = 0
    /\ escalations = 0
    /\ cur = FreshCur(0)
    /\ tRaw \in Texts(MaxTitleLen)
    /\ tTier \in {"static", "rendered"}
    /\ tTier = "rendered" => IsDocumentTitle(tRaw)
    /\ tOut = Pending
    /\ fIn = <<>>
    /\ fOut = <<>>

\* const title = normalizeTitle($('title').first().text())
ApplyNormalizeTitle ==
    /\ pc = "title"
    /\ tTier = "static"
    /\ tOut = Pending
    /\ tOut' = normalizeTitle(tRaw)
    /\ UNCHANGED <<pipeVars, tRaw, tTier, fIn, fOut>>

\* the ttl lines of the page.evaluate callback
ApplyRenderedTitle ==
    /\ pc = "title"
    /\ tTier = "rendered"
    /\ tOut = Pending
    /\ tOut' = renderedTitle(tRaw)
    /\ UNCHANGED <<pipeVars, tRaw, tTier, fIn, fOut>>

NextTitle == ApplyNormalizeTitle \/ ApplyRenderedTitle

SpecTitle == InitTitle /\ [][NextTitle]_vars

\* ------------------------------------------------------------------ Spec
Next ==
    \/ FetchFail
    \/ FetchOk
    \/ TextFail
    \/ FetchOkReturn
    \/ FetchOkEscalate
    \/ LaunchSkip
    \/ LaunchOk
    \/ LaunchFail
    \/ NewPageOk
    \/ NewPageFail
    \/ SetUserAgentOk
    \/ SetUserAgentFail
    \/ GotoOk
    \/ GotoFail
    \/ EvaluateOk
    \/ EvaluateFail
    \/ PageCloseOk
    \/ PageCloseFail
    \/ CloseSkip
    \/ CloseOk
    \/ CloseFail
    \/ Output
    \/ CatchClose

Spec == Init /\ [][Next]_vars

\* ------------------------------------------------------ the command line
\* The whole program: the argument loop has pushed the bare arguments, and
\* pc tells whether -f / --file named a list to read.
InitCli ==
    /\ urls \in UrlLists
    /\ pc \in {"readFile", "checkUrls"}
    /\ idx = 1
    /\ browser = 0
    /\ page = 0
    /\ results = <<>>
    /\ printed = <<>>
    /\ exitCode = -1
    /\ launchCalls = 0
    /\ closeCalls = 0
    /\ pagesOpened = 0
    /\ openPages = {}
    /\ launchOks = 0
    /\ escalations = 0
    /\ cur = FreshCur(0)
    /\ tRaw = <<>>
    /\ tTier = "none"
    /\ tOut = Pending
    /\ fIn = <<>>
    /\ fOut = <<>>

\* await fs.readFile(filePath, 'utf8'): the non-blank lines follow the bare
\* arguments
ReadFileOk ==
    /\ pc = "readFile"
    /\ \E lines \in UrlLists :
          /\ Len(urls) + Len(lines) <= MaxUrls
          /\ urls' = urls \o lines
    /\ pc' = "checkUrls"
    /\ UNCHANGED <<idx, browser, page, results, printed, exitCode,
                   launchCalls, closeCalls, pagesOpened, openPages, launchOks,
                   escalations, cur, titleVars>>

\* fs.readFile rejects: console.error(...); exit(1), bare arguments or not
ReadFileFail ==
    /\ pc = "readFile"
    /\ exitCode' = 1
    /\ pc' = "rejected"
    /\ UNCHANGED <<urls, idx, browser, page, results, printed, launchCalls,
                   closeCalls, pagesOpened, openPages, launchOks, escalations,
                   cur, titleVars>>

\* if (!urls.length) { console.error('Usage: ...'); exit(1) }
UsageExit ==
    /\ pc = "checkUrls"
    /\ urls = <<>>
    /\ exitCode' = 1
    /\ pc' = "rejected"
    /\ UNCHANGED <<urls, idx, browser, page, results, printed, launchCalls,
                   closeCalls, pagesOpened, openPages, launchOks, escalations,
                   cur, titleVars>>

\* there is a URL: the main flow starts
StartRun ==
    /\ pc = "checkUrls"
    /\ urls # <<>>
    /\ pc' = "fetch"
    /\ UNCHANGED <<urls, idx, browser, page, results, printed, exitCode,
                   launchCalls, closeCalls, pagesOpened, openPages, launchOks,
                   escalations, cur, titleVars>>

NextCli ==
    \/ ReadFileOk
    \/ ReadFileFail
    \/ UsageExit
    \/ StartRun
    \/ Next

SpecCli == InitCli /\ [][NextCli]_vars


\* ================================================================ claims
\* scrapeOne has finished for the URL that cur describes
Finished == cur.i >= 1 /\ Len(results) >= cur.i

RenderErrors ==
    {"launch failed", "newPage failed", "setUserAgent failed",
     "Navigation timeout", "Evaluation failed", "page.close failed"}

IsErrorShape(r)   == DOMAIN r = {"url", "error"}
IsSuccessShape(r) == DOMAIN r = {"url", "title", "previewImage"}

\* C1: for a URL whose static fetch succeeded, the fallback is entered
\* exactly once when the static extraction yielded title = null and
\* previewImage = null, and not at all when one of the two is non-null.
C1_EscalatesIffBothNull ==
    (cur.fetched = "ok" /\ Finished) =>
        cur.escalated = (IF cur.sTitle = Null /\ cur.sImage = Null THEN 1 ELSE 0)

\* C2: a run produces one record per input URL, the i-th carrying the i-th
\* URL, whatever failed on the way: records are only ever appended, a record
\* once produced never changes, and when the loop is over there are exactly
\* as many records as URLs.
C2_OneRecordPerUrlInOrder ==
    /\ [](/\ Len(results) <= Len(urls)
          /\ \A i \in 1..Len(results) : results[i].url = urls[i]
          /\ pc \in {"close", "print", "done", "catch", "exited"}
                => Len(results) = Len(urls))
    /\ [][/\ Len(results') >= Len(results)
          /\ \A i \in 1..Len(results) : results'[i] = results[i]]_vars

\* a completed run of two different URLs whose first URL failed and whose
\* second URL succeeded
C2_Witness ==
    /\ pc = "done"
    /\ Len(results) = 2
    /\ urls[1] # urls[2]
    /\ IsErrorShape(results[1])
    /\ IsSuccessShape(results[2])

\* C3: in a run in which the browser was launched, browser.close has been
\* invoked exactly once when the run ends, on every exit path.
C3_ReleasedExactlyOnce ==
    (pc \in {"done", "exited"} /\ launchOks >= 1) => closeCalls = 1

\* C4 as stated: the launch operation is invoked at most once per run.
C4_LaunchInvokedAtMostOnce == launchCalls <= 1

\* C4 as amended: launch is invoked only while no handle is cached, so at
\* most one launch succeeds in a run; after the launch that succeeded none is
\* invoked again, and every page of an escalation is opened on that handle.
C4_AtMostOneLaunchSucceeds ==
    /\ launchOks <= 1
    /\ browser = 0 <=> launchOks = 0
    /\ browser # 0 => launchCalls = browser
    /\ cur.pages >= 1 => (cur.handle # 0 /\ cur.handle = browser)

\* the second escalation of a run works on the handle of the single launch
C4_Witness ==
    /\ cur.i = 2
    /\ cur.pages = 1
    /\ pagesOpened = 2
    /\ launchCalls = 1
    /\ cur.handle = 1

\* C5: every page opened for an escalation is closed before scrapeOne
\* finishes for that URL, whatever the outcome, so no page is open when the
\* next URL starts or when the loop is over.
C5_NoPageLeftOpen == pc \in {"fetch", "close"} => openPages = {}

\* C6: when the static fetch of a URL fails, its record is {url, error:
\* message}, and neither a launch nor a new page nor a navigation is made
\* for that URL.
C6_FetchFailureRecorded ==
    cur.fetched = "fail" =>
        /\ Finished
        /\ idx = cur.i + 1
        /\ cur.threw \in FetchErrors \cup BodyErrors
        /\ results[cur.i] = [url |-> urls[cur.i], error |-> cur.threw]
        /\ cur.escalated = 0 /\ cur.launches = 0
        /\ cur.pages = 0 /\ cur.navs = 0

\* the second URL's fetch fails while a browser launched for the first is at
\* hand
C6_Witness ==
    /\ cur.fetched = "fail"
    /\ cur.i = 2
    /\ browser # 0
    /\ IsErrorShape(results[2])

\* C7: when a URL escalates and the rendered pass throws, its record is the
\* failure record {url, error: message}, never a success record with the
\* nulls of the static attempt, and nothing more is tried for that URL.
C7_RenderFailureRecorded ==
    (cur.escalated = 1 /\ cur.threw # "") =>
        /\ cur.threw \in RenderErrors
        /\ Finished
        /\ idx = cur.i + 1
        /\ IsErrorShape(results[cur.i])
        /\ results[cur.i].url = urls[cur.i]
        /\ results[cur.i].error = cur.threw

\* the navigation of an escalated URL timed out
C7_Witness ==
    /\ cur.escalated = 1
    /\ cur.threw = "Navigation timeout"
    /\ cur.sTitle = Null /\ cur.sImage = Null
    /\ Finished

\* C8: every record has one of two shapes, {url, title, previewImage} or
\* {url, error}; none carries an error field along with success fields.
C8_RecordShapes ==
    \A i \in 1..Len(results) :
        IsSuccessShape(results[i]) \/ IsErrorShape(results[i])

\* both shapes occur in one run
C8_Witness ==
    /\ Len(results) = 2
    /\ IsSuccessShape(results[1])
    /\ IsErrorShape(results[2])

\* C9: the extracted title is never the empty string, in either tier.
C9_TitleNeverEmpty == tOut # <<>>

\* t is s without its leading and trailing blanks
IsTrimOf(t, s) ==
    \E a \in 0..Len(s) : \E b \in 0..(Len(s) - a) :
        /\ t = SubSeq(s, a + 1, Len(s) - b)
        /\ \A i \in 1..a : s[i] = " "
        /\ \A i \in (Len(s) - b + 1)..Len(s) : s[i] = " "
        /\ t # <<>> => (t[1] # " " /\ t[Len(t)] # " ")

\* C10: for a raw title that contains a vertical bar, the extracted title of
\* either tier is the trimmed text before the first bar; and no extracted
\* title contains a bar.
C10_TitleTruncatedAtFirstBar ==
    tOut # Pending =>
        /\ ~includes(tOut, "|")
        /\ includes(tRaw, "|") =>
              \E k \in 1..Len(tRaw) :
                  /\ tRaw[k] = "|"
                  /\ \A j \in 1..(k - 1) : tRaw[j] # "|"
                  /\ IsTrimOf(tOut, SubSeq(tRaw, 1, k - 1))

\* a title with blanks around the text before its first bar, and a second bar
C10_Witness ==
    /\ tOut = <<"a">>
    /\ tRaw = <<" ", "a", "|", "|">>
    /\ tTier = "static"


\* ============================================== the static extractor alone
\* extractCheerio applied to documents in which up to MaxPresent of the six
\* selectors match an element; each attribute of a matched element is
\* absent, empty, or a value that names its selector and attribute.
MaxPresent == 2

SelNames == <<"og", "ogname", "twitter", "itemprop", "image_src", "img">>

AttrStates == {"absent", "empty", "value"}

AttrVal(k, a, st) ==
    CASE st = "absent" -> Undef
      [] st = "empty"  -> <<>>
      [] OTHER         -> <<"/", SelNames[k], a>>

ElOf(k, shape) ==
    [content |-> AttrVal(k, "content", shape.content),
     href    |-> AttrVal(k, "href", shape.href),
     src     |-> AttrVal(k, "src", shape.src)]

\* img[src] matches only elements that carry a src attribute
ElShapes(k) ==
    {sh \in [content : AttrStates, href : AttrStates, src : AttrStates] :
        k = 6 => sh.src # "absent"}

StaticEls(n) ==
    UNION { { [k \in 1..6 |-> IF k \in P THEN ElOf(k, f[k]) ELSE NoEl] :
                f \in {g \in [P -> ElShapes(1)] :
                          \A k \in P : g[k] \in ElShapes(k)} } :
            P \in {Q \in SUBSET (1..6) : Cardinality(Q) <= n} }

IdlePipe ==
    /\ urls = <<UrlA>>
    /\ idx = 1
    /\ browser = 0
    /\ page = 0
    /\ results = <<>>
    /\ printed = <<>>
    /\ exitCode = -1
    /\ launchCalls = 0
    /\ closeCalls = 0
    /\ pagesOpened = 0
    /\ openPages = {}
    /\ launchOks = 0
    /\ escalations = 0
    /\ cur = FreshCur(0)
    /\ tRaw = <<>>
    /\ tTier = "none"
    /\ tOut = Pending

InitStatic ==
    /\ IdlePipe
    /\ pc = "static"
    /\ fIn \in {[title |-> <<"a">>, els |-> e, base |-> b] :
                   e \in StaticEls(MaxPresent), b \in Bases}
    /\ fOut = <<>>

\* let { title, previewImage } = extractCheerio(html, targetUrl)
ApplyExtractCheerio ==
    /\ pc = "static"
    /\ fOut = <<>>
    /\ fOut' = <<extractCheerio(fIn, fIn.base)>>
    /\ UNCHANGED <<pipeVars, tRaw, tTier, tOut, fIn>>

NextStatic == ApplyExtractCheerio

SpecStatic == InitStatic /\ [][NextStatic]_vars

\* the attribute the spec designates for the k-th source
Designated(k) == IF k <= 4 THEN "content" ELSE IF k = 5 THEN "href" ELSE "src"

HasDesignated(els, k) ==
    els[k][Designated(k)] # Undef /\ els[k][Designated(k)] # <<>>

\* C11: extractCheerio returns the (resolved) value of the first of the six
\* sources, in the fixed order, whose designated attribute (content for the
\* meta tags, href for the link, src for the img) is non-empty, and null
\* when none is; a lower-priority source never wins over a higher one.
C11_FirstDesignatedSourceWins ==
    fOut # <<>> =>
        LET S == {k \in 1..6 : HasDesignated(fIn.els, k)}
        IN  IF S = {} THEN fOut[1].previewImage = Null
            ELSE LET k == CHOOSE x \in S : \A y \in S : x <= y
                 IN  fOut[1].previewImage =
                        absolutize(fIn.els[k][Designated(k)], fIn.base)


\* ============================================ the rendered extractor alone
\* The callback of page.evaluate applied to rendered documents with at most
\* one meta/link candidate and up to MaxImgs image elements.
MaxImgs == 2

LogoSvg  == <<"/", "logo", ".svg">>
SpriteUp == <<"/", "SPRITE", ".png">>
UpperSvg == <<"/", "art", ".SVG">>
HostSvg  == <<"//", "art", ".SVG">>
OddName  == <<"page", "https:">>

CandidateVals ==
    {<<>>, CardAbs, IconRel, LogoSvg, SpriteUp, UpperSvg, HostSvg, OddName}

NoMetas == <<Null, Null, Null, Null, Null, Null>>

RenderedMetas ==
    {NoMetas} \cup
    {[NoMetas EXCEPT ![k] = v] : k \in 1..6, v \in CandidateVals} \cup DomMetas

Widths  == {150, 200, 500}
Heights == {150, 500}

SizeName(w, h) ==
    CASE w = 150 /\ h = 150 -> "s150x150"
      [] w = 150 /\ h = 500 -> "s150x500"
      [] w = 200 /\ h = 150 -> "s200x150"
      [] w = 200 /\ h = 500 -> "s200x500"
      [] w = 500 /\ h = 150 -> "s500x150"
      [] OTHER              -> "s500x500"

PngOf(w, h) == <<"https:", "//", "cdn.example", "/", SizeName(w, h), ".png">>
SvgOf(w, h) == <<"https:", "//", "cdn.example", "/", SizeName(w, h), ".svg">>

\* a bitmap, a vector image, and a responsive image whose currentSrc is a
\* bitmap while its src attribute names a vector image
RenderedPics ==
    UNION { { Pic(PngOf(w, h), w, h),
              Pic(SvgOf(w, h), w, h),
              [currentSrc |-> PngOf(w, h), src |-> SvgOf(w, h),
               naturalWidth |-> w, naturalHeight |-> h] } :
            w \in Widths, h \in Heights }

RenderedImages(max) == UNION {[1..n -> RenderedPics] : n \in 0..max}

InitRendered ==
    /\ IdlePipe
    /\ pc = "rendered"
    /\ fIn \in {[title |-> <<"a">>, metas |-> m, images |-> i, location |-> u] :
                   m \in RenderedMetas, i \in RenderedImages(MaxImgs),
                   u \in Bases \cup {BlobLoc}}
    /\ fOut = <<>>

\* ({ title, previewImage } = await page.evaluate(() => { ... }))
ApplyEvaluate ==
    /\ pc = "rendered"
    /\ fOut = <<>>
    /\ fOut' = <<evaluateInPage(fIn)>>
    /\ UNCHANGED <<pipeVars, tRaw, tTier, tOut, fIn>>

NextRendered == ApplyEvaluate

SpecRendered == InitRendered /\ [][NextRendered]_vars

\* ---- what the claims say of a rendered document, stated on the document
\* the meta/link candidate: the first non-empty value in priority order
HasCandidate(d) == \E k \in 1..6 : d.metas[k] # Null /\ d.metas[k] # <<>>

CandidateOf(d) ==
    d.metas[CHOOSE k \in 1..6 :
               /\ d.metas[k] # Null /\ d.metas[k] # <<>>
               /\ \A j \in 1..(k - 1) : d.metas[j] = Null \/ d.metas[j] = <<>>]

\* ends in .svg, or contains sprite or icon in any letter case
Decorative(c) ==
    \/ c[Len(c)] = ".svg"
    \/ \E i \in 1..Len(c) : c[i] \in {"sprite", "SPRITE", "icon", "Icon"}

SourceOf(img) == IF img.currentSrc # <<>> THEN img.currentSrc ELSE img.src

\* the image elements that pass the size and extension tests
Qualifying(d) ==
    {i \in 1..Len(d.images) :
        /\ d.images[i].naturalWidth >= 200
        /\ d.images[i].naturalHeight >= 200
        /\ SourceOf(d.images[i]) # <<>>
        /\ SourceOf(d.images[i])[Len(SourceOf(d.images[i]))] # ".svg"}

AreaOf(d, i) == d.images[i].naturalWidth * d.images[i].naturalHeight

\* C12: a meta/link candidate that ends in .svg or contains sprite or icon
\* is rejected: the result is the source of a qualifying image element, and
\* null when no image element qualifies.
C12_DecorativeCandidateRejected ==
    (fOut # <<>> /\ HasCandidate(fIn) /\ Decorative(CandidateOf(fIn))) =>
        IF Qualifying(fIn) = {} THEN fOut[1].previewImage = Null
        ELSE \E i \in Qualifying(fIn) :
                fOut[1].previewImage = abs(SourceOf(fIn.images[i]), fIn.location)

\* C13: when no meta/link candidate survives, the selected image is a
\* qualifying image element (both sides >= 200, source not ending in .svg)
\* of maximal area, and previewImage is null when none qualifies.
C13_LargestQualifyingImage ==
    (fOut # <<>> /\ (HasCandidate(fIn) => Decorative(CandidateOf(fIn)))) =>
        IF Qualifying(fIn) = {} THEN fOut[1].previewImage = Null
        ELSE \E i \in Qualifying(fIn) :
                /\ fOut[1].previewImage = abs(SourceOf(fIn.images[i]), fIn.location)
                /\ \A j \in Qualifying(fIn) : AreaOf(fIn, i) >= AreaOf(fIn, j)


\* ===================================================== claims on the run
IsAbsolute(u) == schemeEnd(u) > 0

SuccessRecords == {i \in 1..Len(results) : IsSuccessShape(results[i])}

\* C14 as stated: in every success record a non-null previewImage is an
\* absolute URL.
C14_PreviewImageAbsolute ==
    \A i \in SuccessRecords :
        results[i].previewImage = Null \/ IsAbsolute(results[i].previewImage)

\* the base the tier that chose the image of the URL cur describes
\* resolved it against: the target URL in the static tier, location.href of
\* the rendered page in the rendered tier
BaseOfCur == IF cur.escalated = 1 THEN cur.loc ELSE urls[cur.i]

\* C14: in every success record a non-null previewImage is an absolute URL
\* unless the URL parser rejects the chosen value against the base of the
\* tier that chose it (the target URL in the static tier, the location of
\* the rendered page, which a redirect can move away from the target URL,
\* in the rendered tier), in which case the raw value is returned;
\* resolution raises no error.
C14_AbsoluteUnlessUnresolvable ==
    /\ (Finished /\ IsSuccessShape(results[cur.i])) =>
          \/ results[cur.i].previewImage = Null
          \/ IsAbsolute(results[cur.i].previewImage)
          \/ ~newURL(results[cur.i].previewImage, BaseOfCur).ok
    /\ \A i \in SuccessRecords :
          \/ results[i].previewImage = Null
          \/ IsAbsolute(results[i].previewImage)
          \/ \E b \in Locations(results[i].url) :
                ~newURL(results[i].previewImage, b).ok
    /\ \A i \in 1..Len(results) :
          IsErrorShape(results[i]) =>
              results[i].error \in FetchErrors \cup BodyErrors \cup RenderErrors

\* the static tier resolved a relative value against the target URL, and
\* the rendered tier resolved one against the location a redirect led to
C14_Witness ==
    /\ Len(results) = 2
    /\ results[1] = SuccessRecord(UrlB, <<"a">>, <<"https:", "//", "b.example">> \o HeroRel)
    /\ results[2].url = UrlA
    /\ IsSuccessShape(results[2])
    /\ results[2].previewImage = <<"https:", "//", "b.example">> \o IconRel
    /\ cur.i = 2 /\ cur.escalated = 1 /\ cur.loc = UrlB

\* C15: the printed value is a single object exactly when one URL was
\* processed, bare arguments and file lines counted together, and otherwise
\* an array of all the records in input order; nothing is printed on the
\* failure path.
C15_OutputShape ==
    /\ pc = "done" =>
          /\ printed = <<[shape   |-> IF Len(urls) = 1 THEN "object" ELSE "array",
                          records |-> results]>>
          /\ Len(results) = Len(urls)
          /\ \A i \in 1..Len(urls) : results[i].url = urls[i]
    /\ pc # "done" => printed = <<>>

C15_Witness ==
    /\ pc = "done"
    /\ Len(urls) = 1
    /\ printed[1].shape = "object"
    /\ printed[1].records = results

\* C16: the browser is created lazily: launch is never invoked before a URL
\* has escalated, and in a run where no URL escalates there is no launch, no
\* handle, no page and no close.
C16_BrowserLazy ==
    /\ launchCalls <= escalations
    /\ escalations = 0 =>
          launchCalls = 0 /\ browser = 0 /\ pagesOpened = 0 /\ closeCalls = 0
    /\ pc \in {"launch", "newPage", "setUA", "goto", "evaluate", "pageClose"}
          => cur.escalated = 1

C16_Witness ==
    /\ pc = "done"
    /\ Len(urls) = MaxUrls
    /\ escalations = 0
    /\ launchCalls = 0
    /\ closeCalls = 0

ScrapeSteps ==
    {"text", "launch", "newPage", "setUA", "goto", "evaluate", "pageClose"}

PageSteps == {"setUA", "goto", "evaluate", "pageClose"}

\* C17: URLs are processed one at a time in input order: the URL in progress
\* is the one right after the recorded ones, every earlier URL has its
\* record, and the only page in use is the one opened for that URL.
C17_OneUrlAtATime ==
    /\ Len(results) = idx - 1
    /\ \A i \in 1..Len(results) : results[i].url = urls[i]
    /\ pc \in ScrapeSteps => cur.i = idx /\ idx <= Len(urls)
    /\ pc \in PageSteps =>
          cur.pages = 1 /\ page = pagesOpened /\ cur.handle = browser
    /\ pc \notin PageSteps => page = 0

C17_Witness ==
    /\ pc = "evaluate"
    /\ idx = 2
    /\ Len(results) = 1
    /\ IsSuccessShape(results[1])
    /\ cur.i = 2


\* ------------------------------------------------------------ termination
\* the steps that need no answer from outside: a test of the handle, and
\* console.log
SyncStep == LaunchSkip \/ CloseSkip \/ Output

\* the steps in which an awaited call (fetch, res.text, launch, newPage,
\* setUserAgent, goto, evaluate, page.close, browser.close) returns or fails
AwaitedCall ==
    \/ FetchFail \/ FetchOk
    \/ TextFail \/ FetchOkReturn \/ FetchOkEscalate
    \/ LaunchOk \/ LaunchFail
    \/ NewPageOk \/ NewPageFail
    \/ SetUserAgentOk \/ SetUserAgentFail
    \/ GotoOk \/ GotoFail
    \/ EvaluateOk \/ EvaluateFail
    \/ PageCloseOk \/ PageCloseFail
    \/ CloseOk \/ CloseFail
    \/ CatchClose

\* The event loop runs a continuation that is ready, so a step that needs
\* no answer from outside is eventually taken.  Nothing in the code makes
\* an awaited call settle (fetch and res.text() are given no timeout and no
\* AbortSignal), so a run may wait at one for ever.
FairSpec == Spec /\ WF_vars(SyncStep)

\* the assumption of C18: every awaited call eventually returns or fails
EveryCallSettles == WF_vars(AwaitedCall)

Terminated == pc \in {"done", "exited"}

\* C18: assuming every awaited call eventually returns or fails, every run
\* terminates, either with one record per URL followed by the output and
\* status 0, or on the top-level failure path with status 1 and no output.
C18_RunTerminates ==
    /\ EveryCallSettles => <>Terminated
    /\ [](pc = "done" =>
             /\ Len(results) = Len(urls)
             /\ printed = <<printShape(results)>>
             /\ exitCode = 0)
    /\ [](pc = "exited" => exitCode = 1 /\ printed = <<>>)
    /\ [][Terminated => UNCHANGED vars]_vars

C18_Witness ==
    /\ pc = "exited"
    /\ exitCode = 1
    /\ Len(results) = Len(urls)
    /\ printed = <<>>


\* --------------------------------------------------- the shared browser
AfterLoop == {"print", "catch", "done", "exited"}

\* C19: browser.close is invoked only after the last URL's record has been
\* produced, and once a close has been invoked no page is opened, nothing is
\* navigated or evaluated, no launch is made and no record is added.
C19_NoUseAfterClose ==
    /\ [](closeCalls >= 1 =>
             /\ Len(results) = Len(urls)
             /\ idx = Len(urls) + 1
             /\ pc \in AfterLoop)
    /\ [][closeCalls >= 1 =>
             /\ pagesOpened' = pagesOpened
             /\ launchCalls' = launchCalls
             /\ cur' = cur
             /\ results' = results
             /\ pc' \in AfterLoop]_vars

C19_Witness ==
    /\ pc = "done"
    /\ closeCalls = 1
    /\ pagesOpened = 2
    /\ cur.navs = 1
    /\ IsSuccessShape(results[Len(results)])

\* C20: a failed launch becomes the failure record of the URL that
\* escalated and leaves the handle unset; the run goes on to the remaining
\* URLs, an escalation that finds the handle unset invokes launch again, and
\* a run in which no launch succeeded invokes no close and does not take the
\* top-level failure path.
C20_LaunchFailureAbsorbed ==
    /\ [](cur.threw = "launch failed" =>
             /\ Len(results) >= cur.i
             /\ results[cur.i] = ErrorRecord(urls[cur.i], "launch failed")
             /\ browser = 0)
    /\ [](launchOks = 0 =>
             /\ browser = 0
             /\ closeCalls = 0
             /\ pc \notin {"catch", "exited"})
    /\ [](pc = "done" => Len(results) = Len(urls))
    /\ [][pc = "launch" /\ browser = 0 => launchCalls' = launchCalls + 1]_vars
    /\ [][cur'.threw = "launch failed" /\ cur.threw # "launch failed" =>
             pc' = IF idx = Len(urls) THEN "close" ELSE "fetch"]_vars

C20_Witness ==
    /\ pc = "done"
    /\ launchCalls = 2
    /\ launchOks = 0
    /\ closeCalls = 0
    /\ \A i \in 1..2 : results[i] = ErrorRecord(urls[i], "launch failed")

====
